---------------------------- MODULE Spec2Model ----------------------------
(***************************************************************************)
(* Model of the todo application of src/js/todo.js: the TodoController     *)
(* (todoList, completedList, loadTodos, addTodo, toggleCompleted,          *)
(* saveTodos), the part of the TodoView the controller drives (the two     *)
(* rendered lists) and the browser's localStorage under the key "todos".   *)
(*                                                                         *)
(* Every handler runs to completion (single UI thread), so each handler is *)
(* one action.  A page load constructs a new view and a new controller     *)
(* over whatever localStorage holds.                                       *)
(***************************************************************************)
EXTENDS Naturals, Sequences, FiniteSets, TLC

\* ------------------------------------------------------------------ bounds

\* Most Todo objects one controller instance creates or loads.
MaxTodos == 3

\* Values the view's input fields can hand to addTodo (text is trimmed and
\* non-empty, the due date non-empty: TodoView.handleToDoInput).
AddInputs ==
    { [text |-> "Buy milk", priority |-> "high", dueDate |-> "2024-01-01"],
      [text |-> "Walk dog", priority |-> "low", dueDate |-> "2024-02-02"] }

\* Ids a toggle may be asked for: every id a Todo can hold, and one no Todo holds.
ToggleIds == 1..(MaxTodos + 1)

\* ------------------------------------------------------------------- state

VARIABLES
    todoList,             \* controller.todoList: the active Todos, in order
    completedList,        \* controller.completedList: the completed Todos, in order
    localStorage,         \* the browser's key/value store: key -> stored string
    todoListElement,      \* the <li> elements under #todo-list, in order
    completedListElement, \* the <li> elements under #completed-list, in order
    calls,                \* the view and storage calls the last handler made, in order
    lastOp,               \* the last handler run and what it was given
                          \* ("external": a step of something outside the page)
    nCreated,             \* Todo objects this controller created or loaded
    bindLog,              \* the binder calls made on the page's view, in order
    thrown,               \* the exception the last handler let escape ("none": none)
    gesture,              \* the last user gesture on the page and its inputs
    tabB                  \* the controller of a second page over the same localStorage

vars == <<todoList, completedList, localStorage, todoListElement,
          completedListElement, calls, lastOp, nCreated,
          bindLog, thrown, gesture, tabB>>

\* ------------------------------------------------------------------- Todo

\* class Todo: the five fields the constructor sets.
Todo(id, text, completed, priority, dueDate) ==
    [id |-> id, text |-> text, completed |-> completed,
     priority |-> priority, dueDate |-> dueDate]

\* ------------------------------------------------------------------- JSON

\* The decimal digits, by value + 1.
Digits == <<"0", "1", "2", "3", "4", "5", "6", "7", "8", "9">>

RECURSIVE NumberLiteral(_)
\* The digits of a number's JSON text, most significant first.
NumberLiteral(n) ==
    IF n < 10 THEN <<Digits[n + 1]>>
    ELSE NumberLiteral(n \div 10) \o <<Digits[(n % 10) + 1]>>

DigitValue(d) == (CHOOSE i \in 1..10 : Digits[i] = d) - 1

RECURSIVE ParseNumber(_)
\* The number a sequence of digits denotes.
ParseNumber(ds) ==
    IF Len(ds) = 0 THEN 0
    ELSE ParseNumber(SubSeq(ds, 1, Len(ds) - 1)) * 10 + DigitValue(ds[Len(ds)])

BooleanLiteral(b) == IF b THEN <<"true">> ELSE <<"false">>
ParseBoolean(lit) == lit = <<"true">>

StringLiteral(s) == <<s>>
ParseString(lit) == lit[1]

\* JSON.stringify of one Todo: its own properties in the order the
\* constructor assigned them, each as <<key, type, literal>>.
StringifyTodo(t) ==
    << <<"id", "number", NumberLiteral(t.id)>>,
       <<"text", "string", StringLiteral(t.text)>>,
       <<"completed", "boolean", BooleanLiteral(t.completed)>>,
       <<"priority", "string", StringLiteral(t.priority)>>,
       <<"dueDate", "string", StringLiteral(t.dueDate)>> >>

\* JSON.stringify of an array of Todos: its elements, in order.
JSONstringify(todos) == [i \in 1..Len(todos) |-> StringifyTodo(todos[i])]

\* The value of member `key` of a serialized object.
Member(obj, key) ==
    LET m == obj[CHOOSE i \in 1..Len(obj) : obj[i][1] = key]
    IN  CASE m[2] = "number"  -> ParseNumber(m[3])
          [] m[2] = "boolean" -> ParseBoolean(m[3])
          [] OTHER            -> ParseString(m[3])

\* JSON.parse of one serialized object: a plain object with the members' values.
ParseObject(obj) ==
    [id |-> Member(obj, "id"), text |-> Member(obj, "text"),
     completed |-> Member(obj, "completed"),
     priority |-> Member(obj, "priority"), dueDate |-> Member(obj, "dueDate")]

\* JSON.parse of a stored array.
JSONparse(str) == [i \in 1..Len(str) |-> ParseObject(str[i])]

\* ----------------------------------------------------------- localStorage

StorageKey == "todos"

\* localStorage.setItem(key, value): the key's old value is replaced.
setItem(store, key, value) == [k \in {key} |-> value] @@ store

\* Whether localStorage.getItem(key) returns a string (and not null).
hasItem(store, key) == key \in DOMAIN store

\* ------------------------------------------------------------------- view

\* createToDoElement with the checkbox carrying the number after the Todo's
\* id.
createToDoElement_IdOffByOne(todo, checked) ==
    [id |-> todo.id + 1, checked |-> checked, text |-> todo.text,
     priority |-> todo.priority, dueDate |-> todo.dueDate]

\* TodoView.createToDoElement: the <li> of one Todo; its checkbox carries the
\* Todo's id and the checked state, the spans its text, priority and due date.
createToDoElement(todo, checked) ==
    [id |-> todo.id, checked |-> checked, text |-> todo.text,
     priority |-> todo.priority, dueDate |-> todo.dueDate]

\* TodoView.displayTodos: the children of #todo-list after the call.
displayTodos(todos) ==
    [i \in 1..Len(todos) |-> createToDoElement(todos[i], FALSE)]

\* TodoView.displayCompleted: the children of #completed-list after the call.
displayCompleted(todos) ==
    [i \in 1..Len(todos) |-> createToDoElement(todos[i], TRUE)]


\* ------------------------------------------------------------- controller

\* Array.prototype.find by id: the index of the first entry with this id, 0 if none.
FindIndex(list, id) ==
    IF \E i \in 1..Len(list) : list[i].id = id
    THEN CHOOSE i \in 1..Len(list) :
            /\ list[i].id = id
            /\ \A j \in 1..(i - 1) : list[j].id # id
    ELSE 0

\* list.filter((t) => t.id !== id): every entry with another id, in order.
FilterOutId(list, id) == SelectSeq(list, LAMBDA t : t.id # id)

\* MarkAll with the forEach pass left out: the flags stay as they were.
MarkAll_NoPass(list, flag) == list

\* list.forEach((t) => (t.completed = flag)): every entry re-marked.
MarkAll(list, flag) == [i \in 1..Len(list) |-> [list[i] EXCEPT !.completed = flag]]

\* TodoController.addTodo of js/todo.js, the id of the new Todo:
\* this.todoList.length + 1.
NewTodoId(active, completed) == Len(active) + 1

\* TodoController.addTodo of the documented copy of the controller, the id of
\* the new Todo: this.todoList.length + this.completedList.length + 1.
NewTodoIdDocumented(active, completed) == Len(active) + Len(completed) + 1

\* TodoController.addTodo, this.todoList after the push of the new Todo.
addTodoList(active, newId, text, priority, dueDate) ==
    Append(active, Todo(newId, text, FALSE, priority, dueDate))

\* TodoController.toggleCompleted, its effect on the two lists:
\* `found` names the list the id was found in ("none": in neither).
toggleLists(active, completed, id) ==
    IF FindIndex(active, id) # 0
    THEN LET todo == active[FindIndex(active, id)]
         IN  [found |-> "active",
              todoList |-> FilterOutId(active, id),
              completedList |-> MarkAll(Append(completed, todo), TRUE)]
    ELSE IF FindIndex(completed, id) # 0
    THEN LET completedTodo == completed[FindIndex(completed, id)]
         IN  [found |-> "completed",
              todoList |-> MarkAll(Append(active, completedTodo), FALSE),
              completedList |-> FilterOutId(completed, id)]
    ELSE [found |-> "none", todoList |-> active, completedList |-> completed]

\* savedString with the two spreads in the other order.
savedString_CompletedFirst(active, completed) == JSONstringify(completed \o active)

\* TodoController.saveTodos, the string written: [...todoList, ...completedList].
savedString(active, completed) == JSONstringify(active \o completed)

\* TodoController.saveTodos, localStorage after the call.
saveTodos(store, active, completed) ==
    setItem(store, StorageKey, savedString(active, completed))

\* loadActive with the filter left out: this.todoList = todos.
loadActive_NoFilter(todos) == todos

\* TodoController.loadTodos, this.todoList: the stored records not completed.
loadActive(todos) == SelectSeq(todos, LAMBDA todo : ~todo.completed)

\* loadCompleted with the predicate of the line above it: !todo.completed.
loadCompleted_Negated(todos) == SelectSeq(todos, LAMBDA todo : ~todo.completed)

\* TodoController.loadTodos, this.completedList: the stored records completed.
loadCompleted(todos) == SelectSeq(todos, LAMBDA todo : todo.completed)

\* ------------------------------------------------------------------ actions

\* TodoController.constructor after loadTodos: view.bindAddTodo, then
\* view.bindToggleCompleted.
BothBound == <<"bindAddTodo", "bindToggleCompleted">>

\* No gesture: the handler was called directly.
NoGesture == [kind |-> "none", text |-> <<>>, priority |-> "", dueDate |-> "", id |-> 0]

\* No second page is open.
ClosedTab == [open |-> FALSE, todoList |-> <<>>, completedList |-> <<>>, nCreated |-> 0]

\* A handler of the bound controller returns normally, called directly.
Returns ==
    /\ thrown' = "none"
    /\ gesture' = NoGesture
    /\ UNCHANGED <<bindLog, tabB>>

\* Constructed with the second binder call a copy of the first: bindAddTodo
\* runs twice and view.handler is never set.
Constructed_BindsAddTwice ==
    /\ bindLog' = <<"bindAddTodo", "bindAddTodo">>
    /\ thrown' = "none"
    /\ gesture' = NoGesture
    /\ UNCHANGED tabB

\* TodoController.constructor returns: loadTodos returned, both binders ran.
Constructed ==
    /\ bindLog' = BothBound
    /\ thrown' = "none"
    /\ gesture' = NoGesture
    /\ UNCHANGED tabB

\* The page is loaded with nothing stored: new TodoView(), then
\* new TodoController(model, view), whose loadTodos finds no item.
Init ==
    /\ todoList = <<>>
    /\ completedList = <<>>
    /\ localStorage = <<>>
    /\ todoListElement = <<>>
    /\ completedListElement = <<>>
    /\ calls = <<"getItem">>
    /\ lastOp = [name |-> "construct", id |-> 0, found |-> "none"]
    /\ nCreated = 0
    /\ bindLog = BothBound
    /\ thrown = "none"
    /\ gesture = NoGesture
    /\ tabB = ClosedTab

\* AddTodoWithId without its call of displayTodos: the page keeps the active
\* list it showed.
AddTodoWithId_NoRender(newId, text, priority, dueDate) ==
    /\ nCreated < MaxTodos
    /\ todoList' = addTodoList(todoList, newId, text, priority, dueDate)
    /\ localStorage' = saveTodos(localStorage, todoList', completedList)
    /\ calls' = <<"setItem">>
    /\ lastOp' = [name |-> "addTodo", id |-> newId, found |-> "none"]
    /\ nCreated' = nCreated + 1
    /\ UNCHANGED <<todoListElement, completedList, completedListElement>>

\* TodoController.addTodo with the new Todo's id given: push, render, save.
AddTodoWithId(newId, text, priority, dueDate) ==
    /\ nCreated < MaxTodos
    /\ todoList' = addTodoList(todoList, newId, text, priority, dueDate)
    /\ todoListElement' = displayTodos(todoList')
    /\ localStorage' = saveTodos(localStorage, todoList', completedList)
    /\ calls' = <<"displayTodos", "setItem">>
    /\ lastOp' = [name |-> "addTodo", id |-> newId, found |-> "none"]
    /\ nCreated' = nCreated + 1
    /\ UNCHANGED <<completedList, completedListElement>>

\* The add handler bound by bindAddTodo: TodoController.addTodo of js/todo.js.
AddTodo(text, priority, dueDate) ==
    AddTodoWithId(NewTodoId(todoList, completedList), text, priority, dueDate)

\* The add handler of the documented copy of the controller.
AddTodoDocumented(text, priority, dueDate) ==
    AddTodoWithId(NewTodoIdDocumented(todoList, completedList), text, priority, dueDate)

\* ToggleCompleted with the two renders and the save moved out of the
\* branches that found the id: they run for an unknown id too.
ToggleCompleted_AlwaysRenderAndSave(id) ==
    LET r == toggleLists(todoList, completedList, id)
    IN  /\ todoList' = r.todoList
        /\ completedList' = r.completedList
        /\ lastOp' = [name |-> "toggleCompleted", id |-> id, found |-> r.found]
        /\ todoListElement' = displayTodos(todoList')
        /\ completedListElement' = displayCompleted(completedList')
        /\ localStorage' = saveTodos(localStorage, todoList', completedList')
        /\ calls' = <<"displayTodos", "displayCompleted", "setItem">>
        /\ UNCHANGED nCreated

\* ToggleCompleted with the two renders placed before the move: the page
\* shows the lists as they were.
ToggleCompleted_RenderBeforeMove(id) ==
    LET r == toggleLists(todoList, completedList, id)
    IN  /\ todoList' = r.todoList
        /\ completedList' = r.completedList
        /\ lastOp' = [name |-> "toggleCompleted", id |-> id, found |-> r.found]
        /\ IF r.found # "none"
           THEN /\ todoListElement' = displayTodos(todoList)
                /\ completedListElement' = displayCompleted(completedList)
                /\ localStorage' = saveTodos(localStorage, todoList', completedList')
                /\ calls' = <<"displayTodos", "displayCompleted", "setItem">>
           ELSE /\ calls' = <<>>
                /\ UNCHANGED <<todoListElement, completedListElement, localStorage>>
        /\ UNCHANGED nCreated

\* The toggle handler bound by bindToggleCompleted: TodoController.toggleCompleted.
ToggleCompleted(id) ==
    LET r == toggleLists(todoList, completedList, id)
    IN  /\ todoList' = r.todoList
        /\ completedList' = r.completedList
        /\ lastOp' = [name |-> "toggleCompleted", id |-> id, found |-> r.found]
        /\ IF r.found # "none"
           THEN /\ todoListElement' = displayTodos(todoList')
                /\ completedListElement' = displayCompleted(completedList')
                /\ localStorage' = saveTodos(localStorage, todoList', completedList')
                /\ calls' = <<"displayTodos", "displayCompleted", "setItem">>
           ELSE /\ calls' = <<>>
                /\ UNCHANGED <<todoListElement, completedListElement, localStorage>>
        /\ UNCHANGED nCreated

\* Reload with the two renders moved out of the if: they run with nothing
\* stored too.
Reload_RenderAlways ==
    /\ lastOp' = [name |-> "construct", id |-> 0, found |-> "none"]
    /\ LET todos == IF hasItem(localStorage, StorageKey)
                    THEN JSONparse(localStorage[StorageKey]) ELSE <<>>
       IN  /\ todoList' = loadActive(todos)
           /\ completedList' = loadCompleted(todos)
           /\ todoListElement' = displayTodos(todoList')
           /\ completedListElement' = displayCompleted(completedList')
           /\ calls' = <<"getItem", "displayTodos", "displayCompleted">>
           /\ nCreated' = Len(todos)
    /\ UNCHANGED localStorage

\* The page is loaded again: a new TodoView over the empty lists of the page,
\* and a new TodoController, whose constructor runs loadTodos.
Reload ==
    /\ lastOp' = [name |-> "construct", id |-> 0, found |-> "none"]
    /\ IF hasItem(localStorage, StorageKey)
       THEN LET todos == JSONparse(localStorage[StorageKey])
            IN  /\ todoList' = loadActive(todos)
                /\ completedList' = loadCompleted(todos)
                /\ todoListElement' = displayTodos(todoList')
                /\ completedListElement' = displayCompleted(completedList')
                /\ calls' = <<"getItem", "displayTodos", "displayCompleted">>
                /\ nCreated' = Len(todos)
       ELSE /\ todoList' = <<>>
            /\ completedList' = <<>>
            /\ todoListElement' = <<>>
            /\ completedListElement' = <<>>
            /\ calls' = <<"getItem">>
            /\ nCreated' = 0
    /\ UNCHANGED localStorage

Next ==
    \/ \E in \in AddInputs : AddTodo(in.text, in.priority, in.dueDate) /\ Returns
    \/ \E id \in ToggleIds : ToggleCompleted(id) /\ Returns
    \/ Reload /\ Constructed

\* The application of js/todo.js: gestures and page loads in any order.
Spec == Init /\ [][Next]_vars

NextAddToggle ==
    \/ \E in \in AddInputs : AddTodo(in.text, in.priority, in.dueDate) /\ Returns
    \/ \E id \in ToggleIds : ToggleCompleted(id) /\ Returns

\* One page load over empty storage, then add and toggle gestures only.
SpecAddToggle == Init /\ [][NextAddToggle]_vars

NextDocumented ==
    \/ \E in \in AddInputs :
          AddTodoDocumented(in.text, in.priority, in.dueDate) /\ Returns
    \/ \E id \in ToggleIds : ToggleCompleted(id) /\ Returns
    \/ Reload /\ Constructed

\* The documented copy of the controller, which differs in addTodo's id only.
SpecDocumented == Init /\ [][NextDocumented]_vars

\* The ids the checkboxes on the page carry: each checkbox's change listener
\* calls view.handler with the id of the Todo it was created for.
OnScreenIds ==
    {todoListElement[i].id : i \in 1..Len(todoListElement)} \cup
    {completedListElement[i].id : i \in 1..Len(completedListElement)}

\* ------------------------------------------------- faults of the storage

\* Whether JSON.parse accepts the stored string: every member of every object
\* is a JSON value.
ParsesAsJSON(str) ==
    \A i \in 1..Len(str) : \A k \in 1..Len(str[i]) :
        str[i][k][2] \in {"number", "boolean", "string"}

\* A stored string JSON.parse rejects: an object cut off inside a string.
MalformedString ==
    << << <<"id", "number", <<"1">>>>, <<"text", "unterminated", <<"Buy">>>> >> >>

\* Whether the listener that calls the controller's addTodo is registered.
AddBound == \E i \in 1..Len(bindLog) : bindLog[i] = "bindAddTodo"

\* Whether view.handler is the controller's toggleCompleted.
ToggleBound == \E i \in 1..Len(bindLog) : bindLog[i] = "bindToggleCompleted"

\* TodoController.addTodo, with the new Todo's id given, when
\* localStorage.setItem throws (the quota is exceeded): the push and the render
\* are done, the exception leaves saveTodos and addTodo, and the stored value
\* stays.
AddTodoWriteFailsWithId(newId, text, priority, dueDate) ==
    /\ nCreated < MaxTodos
    /\ todoList' = addTodoList(todoList, newId, text, priority, dueDate)
    /\ todoListElement' = displayTodos(todoList')
    /\ calls' = <<"displayTodos", "setItem">>
    /\ lastOp' = [name |-> "addTodo", id |-> newId, found |-> "none"]
    /\ nCreated' = nCreated + 1
    /\ thrown' = "QuotaExceededError"
    /\ gesture' = NoGesture
    /\ UNCHANGED <<completedList, completedListElement, localStorage, bindLog, tabB>>

\* addTodo of js/todo.js when the write fails.
AddTodoWriteFails(text, priority, dueDate) ==
    AddTodoWriteFailsWithId(NewTodoId(todoList, completedList), text, priority, dueDate)

\* addTodo of the documented copy when the write fails.
AddTodoWriteFailsDocumented(text, priority, dueDate) ==
    AddTodoWriteFailsWithId(NewTodoIdDocumented(todoList, completedList),
                            text, priority, dueDate)

\* TodoController.toggleCompleted when the id is found and localStorage.setItem
\* throws: the move and both renders are done, the stored value stays.
ToggleCompletedWriteFails(id) ==
    LET r == toggleLists(todoList, completedList, id)
    IN  /\ r.found # "none"
        /\ todoList' = r.todoList
        /\ completedList' = r.completedList
        /\ lastOp' = [name |-> "toggleCompleted", id |-> id, found |-> r.found]
        /\ todoListElement' = displayTodos(todoList')
        /\ completedListElement' = displayCompleted(completedList')
        /\ calls' = <<"displayTodos", "displayCompleted", "setItem">>
        /\ thrown' = "QuotaExceededError"
        /\ gesture' = NoGesture
        /\ UNCHANGED <<localStorage, nCreated, bindLog, tabB>>

\* The page is loaded while the stored string is one JSON.parse rejects: the
\* new view is built, loadTodos throws a SyntaxError out of the constructor
\* before either binder is called, and the script ends there.
LoadPageParseFails ==
    /\ hasItem(localStorage, StorageKey)
    /\ ~ParsesAsJSON(localStorage[StorageKey])
    /\ todoList' = <<>>
    /\ completedList' = <<>>
    /\ todoListElement' = <<>>
    /\ completedListElement' = <<>>
    /\ calls' = <<"getItem">>
    /\ lastOp' = [name |-> "construct", id |-> 0, found |-> "none"]
    /\ nCreated' = 0
    /\ bindLog' = <<>>
    /\ thrown' = "SyntaxError"
    /\ gesture' = NoGesture
    /\ UNCHANGED <<localStorage, tabB>>

\* The page is loaded while nothing, or a string JSON.parse accepts, is stored.
LoadPage ==
    /\ hasItem(localStorage, StorageKey) => ParsesAsJSON(localStorage[StorageKey])
    /\ Reload
    /\ Constructed

\* Something other than this application stores a string under "todos" that
\* is not JSON.
CorruptStorage ==
    /\ localStorage' = setItem(localStorage, StorageKey, MalformedString)
    /\ lastOp' = [name |-> "external", id |-> 0, found |-> "none"]
    /\ calls' = <<>>
    /\ thrown' = "none"
    /\ UNCHANGED <<todoList, completedList, todoListElement, completedListElement,
                   nCreated, bindLog, gesture, tabB>>

\* Something other than this application removes what is stored.
ClearStorage ==
    /\ localStorage # <<>>
    /\ localStorage' = <<>>
    /\ lastOp' = [name |-> "external", id |-> 0, found |-> "none"]
    /\ calls' = <<>>
    /\ thrown' = "none"
    /\ UNCHANGED <<todoList, completedList, todoListElement, completedListElement,
                   nCreated, bindLog, gesture, tabB>>

\* The values added while the storage misbehaves: one of the view's inputs.
FaultInputs == {in \in AddInputs : in.priority = "high"}

NextFaults ==
    \/ \E in \in FaultInputs :
          AddBound /\ AddTodo(in.text, in.priority, in.dueDate) /\ Returns
    \/ \E in \in FaultInputs :
          AddBound /\ AddTodoWriteFails(in.text, in.priority, in.dueDate)
    \/ \E id \in OnScreenIds : ToggleBound /\ ToggleCompleted(id) /\ Returns
    \/ \E id \in OnScreenIds : ToggleBound /\ ToggleCompletedWriteFails(id)
    \/ LoadPage
    \/ LoadPageParseFails
    \/ CorruptStorage
    \/ ClearStorage

\* The application with a storage that can refuse a write and whose content
\* can be replaced or removed from outside.
SpecFaults == Init /\ [][NextFaults]_vars

NextFaultsDocumented ==
    \/ \E in \in FaultInputs :
          AddBound /\ AddTodoDocumented(in.text, in.priority, in.dueDate) /\ Returns
    \/ \E in \in FaultInputs :
          AddBound /\ AddTodoWriteFailsDocumented(in.text, in.priority, in.dueDate)
    \/ \E id \in OnScreenIds : ToggleBound /\ ToggleCompleted(id) /\ Returns
    \/ \E id \in OnScreenIds : ToggleBound /\ ToggleCompletedWriteFails(id)
    \/ LoadPage
    \/ LoadPageParseFails
    \/ CorruptStorage
    \/ ClearStorage

\* The documented copy of the controller over the same misbehaving storage.
SpecFaultsDocumented == Init /\ [][NextFaultsDocumented]_vars

\* ----------------------------------------------------- gestures on the view

\* A blank of an input field's value.  A value is a sequence of pieces: blanks
\* and, between them, at most one piece of text.
Blank == " "

RECURSIVE TrimStart(_)
\* The value without its leading blanks.
TrimStart(value) ==
    IF Len(value) > 0 /\ Head(value) = Blank THEN TrimStart(Tail(value)) ELSE value

RECURSIVE TrimEnd(_)
\* The value without its trailing blanks.
TrimEnd(value) ==
    IF Len(value) > 0 /\ value[Len(value)] = Blank
    THEN TrimEnd(SubSeq(value, 1, Len(value) - 1))
    ELSE value

\* String.prototype.trim.
Trim(value) == TrimEnd(TrimStart(value))

\* The string a trimmed, non-empty value is.
TextOf(trimmed) == trimmed[1]

\* Rejects with the test of the due date left out.
Rejects_TextOnly(value, dueDate) == Trim(value) = <<>>

\* TodoView.handleToDoInput, its test of the fields: whether it alerts and
\* returns without calling the handler.
Rejects(value, dueDate) == Trim(value) = <<>> \/ dueDate = ""

\* What the three fields can hold when the add button is clicked or Enter is
\* pressed in the text field.
FormValues ==
    { [text |-> <<Blank, "Buy milk", Blank>>, priority |-> "high", dueDate |-> "2024-01-01"],
      [text |-> <<"Walk dog">>, priority |-> "low", dueDate |-> "2024-02-02"],
      [text |-> <<Blank, Blank>>, priority |-> "high", dueDate |-> "2024-01-01"],
      [text |-> <<>>, priority |-> "low", dueDate |-> ""],
      [text |-> <<"Walk dog">>, priority |-> "low", dueDate |-> ""] }

\* No handler of the controller ran in this step.
NoHandler == [name |-> "none", id |-> 0, found |-> "none"]

\* A click on the add button, or Enter in the text field, with the fields
\* holding `form`: each listener registered by bindAddTodo runs
\* handleToDoInput(handler).
SubmitGesture(form) ==
    /\ gesture' = [kind |-> "submit", text |-> form.text, priority |-> form.priority,
                   dueDate |-> form.dueDate, id |-> 0]
    /\ thrown' = "none"
    /\ UNCHANGED <<bindLog, tabB>>
    /\ IF ~AddBound
       THEN /\ calls' = <<>>
            /\ lastOp' = NoHandler
            /\ UNCHANGED <<todoList, completedList, localStorage, todoListElement,
                           completedListElement, nCreated>>
       ELSE IF Rejects(form.text, form.dueDate)
       THEN /\ calls' = <<"alert">>
            /\ lastOp' = NoHandler
            /\ UNCHANGED <<todoList, completedList, localStorage, todoListElement,
                           completedListElement, nCreated>>
       ELSE AddTodo(TextOf(Trim(form.text)), form.priority, form.dueDate)

\* A change of the checkbox of an <li> on the page: its listener calls
\* this.handler(todo.id).
ChangeGesture(id) ==
    /\ gesture' = [kind |-> "change", text |-> <<>>, priority |-> "",
                   dueDate |-> "", id |-> id]
    /\ UNCHANGED <<bindLog, tabB>>
    /\ IF ToggleBound
       THEN /\ ToggleCompleted(id)
            /\ thrown' = "none"
       ELSE /\ thrown' = "TypeError"
            /\ calls' = <<>>
            /\ lastOp' = NoHandler
            /\ UNCHANGED <<todoList, completedList, localStorage, todoListElement,
                           completedListElement, nCreated>>

NextView ==
    \/ \E form \in FormValues : SubmitGesture(form)
    \/ \E id \in OnScreenIds : ChangeGesture(id)
    \/ LoadPage

\* The application driven through its page only: submissions of the form,
\* changes of the checkboxes shown, and page loads.
SpecView == Init /\ [][NextView]_vars

\* ------------------------------------------- two tabs sharing one storage

\* The due dates typed in the first tab, one per submission.
TabADueDates == <<"2024-01-01", "2024-01-02", "2024-01-03", "2024-01-04", "2024-01-05">>

\* What the first tab's form holds at its n-th submission.
TabAInput(n) ==
    [text |-> "Buy milk", priority |-> "high",
     dueDate |-> TabADueDates[((n - 1) % Len(TabADueDates)) + 1]]

\* What the second tab's form holds at each of its submissions.
TabBInput == [text |-> "Walk dog", priority |-> "low", dueDate |-> "2024-02-02"]

\* The ids of the Todos the second tab's controller holds.
TabBIds ==
    {tabB.todoList[i].id : i \in 1..Len(tabB.todoList)} \cup
    {tabB.completedList[i].id : i \in 1..Len(tabB.completedList)}

\* The page is opened in a second tab: its own TodoController loads what is
\* stored at that moment into lists of its own.
OpenTabB ==
    /\ ~tabB.open
    /\ LET todos == IF hasItem(localStorage, StorageKey)
                    THEN JSONparse(localStorage[StorageKey]) ELSE <<>>
       IN  tabB' = [open |-> TRUE, todoList |-> loadActive(todos),
                    completedList |-> loadCompleted(todos), nCreated |-> Len(todos)]
    /\ lastOp' = [name |-> "constructB", id |-> 0, found |-> "none"]
    /\ calls' = IF hasItem(localStorage, StorageKey)
                THEN <<"getItem", "displayTodos", "displayCompleted">>
                ELSE <<"getItem">>
    /\ thrown' = "none"
    /\ gesture' = NoGesture
    /\ UNCHANGED <<todoList, completedList, localStorage, todoListElement,
                   completedListElement, nCreated, bindLog>>

\* TabBAdd with the second tab reading the stored value again before it adds.
TabBAdd_ReloadFirst ==
    LET todos == IF hasItem(localStorage, StorageKey)
                 THEN JSONparse(localStorage[StorageKey]) ELSE <<>>
        active == loadActive(todos)
        completed == loadCompleted(todos)
        newId == NewTodoId(active, completed)
        added == addTodoList(active, newId, TabBInput.text, TabBInput.priority,
                             TabBInput.dueDate)
    IN  /\ tabB.open
        /\ tabB.nCreated < MaxTodos
        /\ tabB' = [tabB EXCEPT !.todoList = added, !.completedList = completed,
                                !.nCreated = @ + 1]
        /\ localStorage' = saveTodos(localStorage, added, completed)
        /\ calls' = <<"displayTodos", "setItem">>
        /\ lastOp' = [name |-> "addTodoB", id |-> newId, found |-> "none"]
        /\ thrown' = "none"
        /\ gesture' = NoGesture
        /\ UNCHANGED <<todoList, completedList, todoListElement, completedListElement,
                       nCreated, bindLog>>

\* addTodo of the second tab's controller: push to its own active list, then
\* saveTodos writes its own two lists over whatever is stored.
TabBAdd ==
    LET newId == NewTodoId(tabB.todoList, tabB.completedList)
        added == addTodoList(tabB.todoList, newId, TabBInput.text, TabBInput.priority,
                             TabBInput.dueDate)
    IN  /\ tabB.open
        /\ tabB.nCreated < MaxTodos
        /\ tabB' = [tabB EXCEPT !.todoList = added, !.nCreated = @ + 1]
        /\ localStorage' = saveTodos(localStorage, added, tabB.completedList)
        /\ calls' = <<"displayTodos", "setItem">>
        /\ lastOp' = [name |-> "addTodoB", id |-> newId, found |-> "none"]
        /\ thrown' = "none"
        /\ gesture' = NoGesture
        /\ UNCHANGED <<todoList, completedList, todoListElement, completedListElement,
                       nCreated, bindLog>>

\* toggleCompleted of the second tab's controller for the id of one of its
\* checkboxes: move within its own lists, then saveTodos writes them over
\* whatever is stored.
TabBToggle(id) ==
    LET r == toggleLists(tabB.todoList, tabB.completedList, id)
    IN  /\ tabB.open
        /\ r.found # "none"
        /\ tabB' = [tabB EXCEPT !.todoList = r.todoList, !.completedList = r.completedList]
        /\ localStorage' = saveTodos(localStorage, r.todoList, r.completedList)
        /\ calls' = <<"displayTodos", "displayCompleted", "setItem">>
        /\ lastOp' = [name |-> "toggleCompletedB", id |-> id, found |-> r.found]
        /\ thrown' = "none"
        /\ gesture' = NoGesture
        /\ UNCHANGED <<todoList, completedList, todoListElement, completedListElement,
                       nCreated, bindLog>>

NextTwoTabs ==
    \/ /\ AddTodo(TabAInput(nCreated + 1).text, TabAInput(nCreated + 1).priority,
                   TabAInput(nCreated + 1).dueDate)
       /\ Returns
    \/ OpenTabB
    \/ TabBAdd
    \/ \E id \in TabBIds : TabBToggle(id)

\* The page open in two tabs over the same localStorage: the first tab's
\* controller is the one loaded at the start and adds Todos, the second tab's
\* is loaded when that tab is opened and adds and toggles Todos; neither
\* reads the storage again.
SpecTwoTabs == Init /\ [][NextTwoTabs]_vars

\* ------------------------------------------------------------------ claims

\* Both lists as one sequence: active first, then completed.
AllTodos == todoList \o completedList

\* No two entries of the two lists share an id.
IdsDistinct ==
    \A i, j \in 1..Len(AllTodos) : i # j => AllTodos[i].id # AllTodos[j].id

\* C1: after any sequence of addTodo and toggleCompleted from empty storage,
\* every Todo added is in exactly one of the two lists: no id appears twice
\* (in one list or across both) and none is lost, so the two lengths add up
\* to the number of adds performed.
C1_ExactlyOneList ==
    /\ IdsDistinct
    /\ Len(todoList) + Len(completedList) = nCreated

\* C2: after any sequence of addTodo, toggleCompleted and page loads, the ids
\* of the Todos in the two lists are pairwise distinct: addTodo never gives a
\* new Todo the id of one that exists.
C2_IdsPairwiseDistinct == IdsDistinct

\* C3: addTodo appends to the active list a Todo with completed = false and
\* id = active.length + completed.length + 1 (lengths before the add), and
\* leaves the earlier active entries and the completed list as they were.
C3_AddTodoAppendsWithCountId ==
    [][lastOp'.name = "addTodo" =>
          /\ Len(todoList') = Len(todoList) + 1
          /\ SubSeq(todoList', 1, Len(todoList)) = todoList
          /\ todoList'[Len(todoList')].completed = FALSE
          /\ todoList'[Len(todoList')].id = Len(todoList) + Len(completedList) + 1
          /\ completedList' = completedList]_vars

\* C4: in every state reachable by page loads, addTodo and toggleCompleted,
\* every Todo of the active list has completed = false and every Todo of the
\* completed list has completed = true.
C4_FlagAgreesWithList ==
    /\ \A i \in 1..Len(todoList) : todoList[i].completed = FALSE
    /\ \A i \in 1..Len(completedList) : completedList[i].completed = TRUE

\* A toggle has just moved a Todo back to a non-empty active list while the
\* completed list still holds a Todo.
C4_Witness ==
    /\ lastOp.name = "toggleCompleted"
    /\ lastOp.found = "completed"
    /\ Len(todoList) >= 2
    /\ Len(completedList) >= 1

\* Whether some entry of the list has the id.
HasId(list, id) == \E i \in 1..Len(list) : list[i].id = id

\* The list without its k-th entry.
RemoveAt(list, k) == SubSeq(list, 1, k - 1) \o SubSeq(list, k + 1, Len(list))

\* C5: toggleCompleted(id) with id in active removes exactly one entry (the
\* first with that id) from active and appends it, with completed = true, at
\* the tail of completed; with id only in completed it removes exactly one
\* entry from completed and appends it, with completed = false, at the tail
\* of active.  Every other entry keeps its list and its place.
C5_ToggleMovesOneEntry ==
    [][lastOp'.name = "toggleCompleted" =>
          LET id == lastOp'.id
          IN  /\ HasId(todoList, id) =>
                    \E k \in 1..Len(todoList) :
                        /\ todoList[k].id = id
                        /\ todoList' = RemoveAt(todoList, k)
                        /\ completedList' =
                              Append(completedList, [todoList[k] EXCEPT !.completed = TRUE])
              /\ (~HasId(todoList, id) /\ HasId(completedList, id)) =>
                    \E k \in 1..Len(completedList) :
                        /\ completedList[k].id = id
                        /\ completedList' = RemoveAt(completedList, k)
                        /\ todoList' =
                              Append(todoList, [completedList[k] EXCEPT !.completed = FALSE])
    ]_vars

\* C6: toggleCompleted(id) with an id in neither list changes neither list,
\* renders nothing (no displayTodos, no displayCompleted call, the rendered
\* lists stay), and writes nothing to storage.
C6_ToggleUnknownIdIsNoOp ==
    [][(/\ lastOp'.name = "toggleCompleted"
        /\ ~HasId(todoList, lastOp'.id)
        /\ ~HasId(completedList, lastOp'.id)) =>
          /\ todoList' = todoList
          /\ completedList' = completedList
          /\ todoListElement' = todoListElement
          /\ completedListElement' = completedListElement
          /\ localStorage' = localStorage
          /\ calls' = <<>>
    ]_vars

\* A toggle of an id no Todo holds has just run, with Todos in both lists.
C6_Witness ==
    /\ lastOp.name = "toggleCompleted"
    /\ ~HasId(todoList, lastOp.id)
    /\ ~HasId(completedList, lastOp.id)
    /\ Len(todoList) >= 1
    /\ Len(completedList) >= 1
    /\ calls = <<>>

\* How many entries of the list equal t.
Count(list, t) == Cardinality({i \in 1..Len(list) : list[i] = t})

\* Whether two lists hold the same Todos (with the same field values), in any order.
SameTodos(l1, l2) ==
    /\ Len(l1) = Len(l2)
    /\ \A i \in 1..Len(l1) : Count(l1, l1[i]) = Count(l2, l1[i])

\* C7: in any reachable state, toggleCompleted(id) run twice in a row for an
\* id some Todo holds leaves every Todo, the toggled one included, in the list
\* it was in, with the completed flag it had (only positions may change).
C7_ToggleTwiceRestores ==
    \A id \in ToggleIds :
        LET r1 == toggleLists(todoList, completedList, id)
            r2 == toggleLists(r1.todoList, r1.completedList, id)
        IN  (HasId(todoList, id) \/ HasId(completedList, id)) =>
                /\ SameTodos(r2.todoList, todoList)
                /\ SameTodos(r2.completedList, completedList)

\* C8: in any reachable state, saveTodos followed by loadTodos in a fresh
\* controller reproduces the same Todos (all five fields), the same partition
\* into active and completed, and the same order within each list.
C8_SaveLoadRoundTrip ==
    LET todos == JSONparse(savedString(todoList, completedList))
    IN  /\ loadActive(todos) = todoList
        /\ loadCompleted(todos) = completedList

\* A page load has just rebuilt, from what the last handler saved, an active
\* list of two or more Todos and a non-empty completed list.
C8_Witness ==
    /\ lastOp.name = "construct"
    /\ hasItem(localStorage, StorageKey)
    /\ Len(todoList) >= 2
    /\ Len(completedList) >= 1

\* The keys of a serialized object, in order.
Keys(obj) == [k \in 1..Len(obj) |-> obj[k][1]]

\* C9: after every addTodo and every toggleCompleted that found its id, the
\* value stored under "todos" is the serialization of active followed by
\* completed, in their in-memory order, each Todo with its five fields, and
\* nothing else is stored.
C9_StoredIsActiveThenCompleted ==
    (\/ lastOp.name = "addTodo"
     \/ (lastOp.name = "toggleCompleted" /\ lastOp.found # "none")) =>
        /\ DOMAIN localStorage = {"todos"}
        /\ Len(localStorage["todos"]) = Len(todoList) + Len(completedList)
        /\ \A i \in 1..Len(localStorage["todos"]) :
              Keys(localStorage["todos"][i]) =
                  <<"id", "text", "completed", "priority", "dueDate">>
        /\ JSONparse(localStorage["todos"]) = todoList \o completedList

\* A toggle has just moved a Todo and saved, with Todos in both lists.
C9_Witness ==
    /\ lastOp.name = "toggleCompleted"
    /\ lastOp.found = "active"
    /\ Len(todoList) >= 1
    /\ Len(completedList) >= 2
    /\ calls = <<"displayTodos", "displayCompleted", "setItem">>

\* Whether the rendered list shows exactly these Todos, in order, all with
\* the given checkbox state.
Shows(elements, todos, checked) ==
    /\ Len(elements) = Len(todos)
    /\ \A i \in 1..Len(todos) :
          /\ elements[i].id = todos[i].id
          /\ elements[i].text = todos[i].text
          /\ elements[i].priority = todos[i].priority
          /\ elements[i].dueDate = todos[i].dueDate
          /\ elements[i].checked = checked

\* C10: loadTodos on a stored, well-formed sequence sets active to exactly
\* the records with completed = false and completed to exactly those with
\* completed = true, each in stored order, then calls displayTodos(active)
\* and displayCompleted(completed); it does not write to storage.
C10_LoadPartitionsAndRenders ==
    [][(lastOp'.name = "construct" /\ "todos" \in DOMAIN localStorage) =>
          LET stored == JSONparse(localStorage["todos"])
          IN  /\ todoList' = SelectSeq(stored, LAMBDA t : t.completed = FALSE)
              /\ completedList' = SelectSeq(stored, LAMBDA t : t.completed = TRUE)
              /\ Len(todoList') + Len(completedList') = Len(stored)
              /\ calls' = <<"getItem", "displayTodos", "displayCompleted">>
              /\ Shows(todoListElement', todoList', FALSE)
              /\ Shows(completedListElement', completedList', TRUE)
              /\ localStorage' = localStorage
    ]_vars

\* A page load has just partitioned and rendered a stored sequence with
\* records of both kinds.
C10_Witness ==
    /\ lastOp.name = "construct"
    /\ calls = <<"getItem", "displayTodos", "displayCompleted">>
    /\ Len(todoList) >= 1
    /\ Len(completedList) >= 2
    /\ Len(todoListElement) = Len(todoList)
    /\ Len(completedListElement) = Len(completedList)

\* C11: loadTodos with nothing stored under "todos" leaves both lists of the
\* new controller empty, calls neither displayTodos nor displayCompleted (the
\* page's two lists stay empty) and writes nothing to storage.
C11_LoadWithNothingStored ==
    [][(lastOp'.name = "construct" /\ ~("todos" \in DOMAIN localStorage)) =>
          /\ todoList' = <<>>
          /\ completedList' = <<>>
          /\ calls' = <<"getItem">>
          /\ todoListElement' = <<>>
          /\ completedListElement' = <<>>
          /\ localStorage' = localStorage
    ]_vars

\* A controller has just been constructed over a storage without "todos".
C11_Witness ==
    /\ lastOp.name = "construct"
    /\ ~("todos" \in DOMAIN localStorage)
    /\ thrown = "none"
    /\ calls = <<"getItem">>
    /\ todoList = <<>>
    /\ completedList = <<>>

\* Whether an input field's value holds anything but blanks.
HasText(value) == \E i \in 1..Len(value) : value[i] # " "

\* The text in an input field's value that holds some.
TextIn(value) == value[CHOOSE i \in 1..Len(value) : value[i] # " "]

\* C12: constructing a controller runs loadTodos first (its getItem is the
\* first call) and then calls the view's bindAddTodo once and
\* bindToggleCompleted once, so that from then on every accepted submission
\* reaches addTodo and every checkbox change reaches toggleCompleted with the
\* checkbox's id.
C12_ConstructorBindsBothOnce ==
    /\ [](/\ bindLog = <<"bindAddTodo", "bindToggleCompleted">>
          /\ lastOp.name = "construct" => calls[1] = "getItem")
    /\ [][(/\ gesture'.kind = "submit"
           /\ HasText(gesture'.text)
           /\ gesture'.dueDate # "") =>
             /\ lastOp'.name = "addTodo"
             /\ Len(todoList') = Len(todoList) + 1]_vars
    /\ [][gesture'.kind = "change" =>
             /\ lastOp'.name = "toggleCompleted"
             /\ lastOp'.id = gesture'.id
             /\ thrown' = "none"]_vars

\* A checkbox change has just reached toggleCompleted with the checkbox's id,
\* both binders having run at construction.
C12_Witness ==
    /\ gesture.kind = "change"
    /\ lastOp.name = "toggleCompleted"
    /\ lastOp.id = gesture.id
    /\ bindLog = <<"bindAddTodo", "bindToggleCompleted">>
    /\ Len(completedList) >= 1

\* C13: a submission (click or Enter) whose trimmed text and due date are
\* both non-empty calls addTodo exactly once, with the trimmed text, the
\* priority and the due date; a submission with an empty trimmed text or an
\* empty due date calls nothing of the controller and changes neither the
\* lists nor the storage.  No Todo with an empty text or due date exists.
C13_SubmissionValidated ==
    /\ [](\A i \in 1..Len(todoList \o completedList) :
             /\ (todoList \o completedList)[i].text \notin {"", " "}
             /\ (todoList \o completedList)[i].dueDate # "")
    /\ [][gesture'.kind = "submit" =>
             IF HasText(gesture'.text) /\ gesture'.dueDate # ""
             THEN /\ lastOp'.name = "addTodo"
                  /\ nCreated' = nCreated + 1
                  /\ Len(todoList') = Len(todoList) + 1
                  /\ SubSeq(todoList', 1, Len(todoList)) = todoList
                  /\ todoList'[Len(todoList')].text = TextIn(gesture'.text)
                  /\ todoList'[Len(todoList')].priority = gesture'.priority
                  /\ todoList'[Len(todoList')].dueDate = gesture'.dueDate
                  /\ completedList' = completedList
             ELSE /\ lastOp'.name # "addTodo"
                  /\ calls' = <<"alert">>
                  /\ nCreated' = nCreated
                  /\ todoList' = todoList
                  /\ completedList' = completedList
                  /\ localStorage' = localStorage]_vars

\* A submission with a text but no due date has just been rejected, with a
\* Todo in memory.
C13_Witness ==
    /\ gesture.kind = "submit"
    /\ HasText(gesture.text)
    /\ gesture.dueDate = ""
    /\ calls = <<"alert">>
    /\ lastOp.name = "none"
    /\ Len(todoList) >= 1

\* C14: a page load while the string stored under "todos" is not JSON fails
\* with an error that reaches the caller, leaves the stored value as it was,
\* and leaves the application usable: the add and the toggle gestures still
\* reach the controller.
C14_MalformedLoadLeavesAppUsable ==
    [][(/\ lastOp'.name = "construct"
        /\ hasItem(localStorage, StorageKey)
        /\ ~ParsesAsJSON(localStorage[StorageKey])) =>
          /\ thrown' = "SyntaxError"
          /\ localStorage' = localStorage
          /\ \E i \in 1..Len(bindLog') : bindLog'[i] = "bindAddTodo"
          /\ \E i \in 1..Len(bindLog') : bindLog'[i] = "bindToggleCompleted"
    ]_vars

\* C14, the part the code keeps: the failed load throws to its caller and
\* neither deletes nor overwrites the stored value.
C14_StoredValueKept ==
    [][(/\ lastOp'.name = "construct"
        /\ hasItem(localStorage, StorageKey)
        /\ ~ParsesAsJSON(localStorage[StorageKey])) =>
          /\ thrown' = "SyntaxError"
          /\ localStorage' = localStorage
    ]_vars

\* C15: when the storage write fails during addTodo or during a
\* toggleCompleted that found its id, the lists in memory already reflect the
\* operation and stay valid (no id twice, no Todo lost, every flag agreeing
\* with its list), and every later add or toggle whose write succeeds stores
\* the complete current state: active followed by completed.
C15_WriteFailureKeepsMemoryValid ==
    /\ [](thrown = "QuotaExceededError" =>
            /\ IdsDistinct
            /\ Len(todoList) + Len(completedList) = nCreated
            /\ \A i \in 1..Len(todoList) : todoList[i].completed = FALSE
            /\ \A i \in 1..Len(completedList) : completedList[i].completed = TRUE)
    /\ [][thrown' = "QuotaExceededError" =>
            /\ localStorage' = localStorage
            /\ lastOp'.name = "addTodo" =>
                  /\ Len(todoList') = Len(todoList) + 1
                  /\ SubSeq(todoList', 1, Len(todoList)) = todoList
                  /\ completedList' = completedList
            /\ (lastOp'.name = "toggleCompleted" /\ lastOp'.found = "active") =>
                  /\ ~HasId(todoList', lastOp'.id)
                  /\ HasId(completedList', lastOp'.id)
            /\ (lastOp'.name = "toggleCompleted" /\ lastOp'.found = "completed") =>
                  /\ HasId(todoList', lastOp'.id)
                  /\ ~HasId(completedList', lastOp'.id)
            /\ todoListElement' = displayTodos(todoList')
            /\ completedListElement' = displayCompleted(completedList')]_vars
    /\ [][(/\ thrown' = "none"
           /\ Len(calls') > 0
           /\ calls'[Len(calls')] = "setItem") =>
            /\ hasItem(localStorage', StorageKey)
            /\ JSONparse(localStorage'[StorageKey]) = todoList' \o completedList']_vars

\* C15 without the partition: what a failed write leaves behind apart from
\* the ids and the count of the Todos.
C15_FailedWriteLosesDurabilityOnly ==
    /\ [](thrown = "QuotaExceededError" =>
            /\ \A i \in 1..Len(todoList) : todoList[i].completed = FALSE
            /\ \A i \in 1..Len(completedList) : completedList[i].completed = TRUE)
    /\ [][thrown' = "QuotaExceededError" =>
            /\ localStorage' = localStorage
            /\ lastOp'.name = "addTodo" =>
                  /\ Len(todoList') = Len(todoList) + 1
                  /\ SubSeq(todoList', 1, Len(todoList)) = todoList
                  /\ completedList' = completedList
            /\ todoListElement' = displayTodos(todoList')
            /\ completedListElement' = displayCompleted(completedList')]_vars
    /\ [][(/\ thrown' = "none"
           /\ Len(calls') > 0
           /\ calls'[Len(calls')] = "setItem") =>
            /\ hasItem(localStorage', StorageKey)
            /\ JSONparse(localStorage'[StorageKey]) = todoList' \o completedList']_vars

\* C16: every toggleCompleted that finds its id calls displayTodos with the
\* active list after the move, then displayCompleted with the completed list
\* after the move, then writes the two lists after the move, active first:
\* move, two renders, write, in that order within the one operation.
C16_ToggleRendersThenPersists ==
    [][(/\ lastOp'.name = "toggleCompleted"
        /\ lastOp'.found # "none") =>
          /\ IF lastOp'.found = "active"
             THEN ~HasId(todoList', lastOp'.id) /\ HasId(completedList', lastOp'.id)
             ELSE HasId(todoList', lastOp'.id) /\ ~HasId(completedList', lastOp'.id)
          /\ calls' = <<"displayTodos", "displayCompleted", "setItem">>
          /\ Shows(todoListElement', todoList', FALSE)
          /\ Shows(completedListElement', completedList', TRUE)
          /\ hasItem(localStorage', StorageKey)
          /\ JSONparse(localStorage'[StorageKey]) = todoList' \o completedList'
    ]_vars

\* A toggle has just moved a Todo from a completed list of two to a non-empty
\* active list, rendered both and written them.
C16_Witness ==
    /\ lastOp.name = "toggleCompleted"
    /\ lastOp.found = "completed"
    /\ calls = <<"displayTodos", "displayCompleted", "setItem">>
    /\ Len(todoList) >= 2
    /\ Len(completedList) >= 1
    /\ JSONparse(localStorage[StorageKey]) = todoList \o completedList

\* C17: between operations, after any sequence of page loads, addTodo and
\* toggleCompleted, the list last rendered by displayTodos is the current
\* active list and the list last rendered by displayCompleted is the current
\* completed list (an entry point never called shows the empty list), although
\* addTodo calls displayTodos only.
C17_ViewShowsBothLists ==
    /\ todoListElement = displayTodos(todoList)
    /\ completedListElement = displayCompleted(completedList)
    /\ Len(todoListElement) = Len(todoList)
    /\ Len(completedListElement) = Len(completedList)
    /\ \A i \in 1..Len(todoList) :
          todoListElement[i].id = todoList[i].id /\ ~todoListElement[i].checked
    /\ \A i \in 1..Len(completedList) :
          completedListElement[i].id = completedList[i].id /\ completedListElement[i].checked

\* An addTodo, which renders the active list only, has just run while the
\* completed list holds a Todo moved there earlier.
C17_Witness ==
    /\ lastOp.name = "addTodo"
    /\ calls = <<"displayTodos", "setItem">>
    /\ Len(todoList) >= 2
    /\ Len(completedList) >= 1
    /\ Len(completedListElement) = Len(completedList)

\* The ids of the Todos of the two lists.
ListIds ==
    {todoList[i].id : i \in 1..Len(todoList)} \cup
    {completedList[i].id : i \in 1..Len(completedList)}

\* C18: every toggle gesture the page can produce passes the id of a Todo
\* that is in the active or the completed list: the checkboxes on the page are
\* those of the last renders, each calls the handler once per change with its
\* own Todo's id, so toggleCompleted never takes its not-found branch.
C18_GesturesPassKnownIds ==
    /\ [](OnScreenIds = ListIds)
    /\ [][gesture'.kind = "change" =>
            /\ gesture'.id \in OnScreenIds
            /\ HasId(todoList, gesture'.id) \/ HasId(completedList, gesture'.id)
            /\ lastOp'.name = "toggleCompleted"
            /\ lastOp'.id = gesture'.id
            /\ lastOp'.found # "none"
            /\ calls' = <<"displayTodos", "displayCompleted", "setItem">>]_vars

\* The checkbox of a completed Todo has just been changed while the active
\* list held a Todo: the handler found the id in the completed list.
C18_Witness ==
    /\ gesture.kind = "change"
    /\ lastOp.name = "toggleCompleted"
    /\ lastOp.id = gesture.id
    /\ lastOp.found = "completed"
    /\ Len(todoList) >= 2

\* Whether the stored records include one with this text and due date.
StoredHolds(store, todo) ==
    /\ hasItem(store, StorageKey)
    /\ \E k \in 1..Len(JSONparse(store[StorageKey])) :
          /\ JSONparse(store[StorageKey])[k].text = todo.text
          /\ JSONparse(store[StorageKey])[k].dueDate = todo.dueDate

\* C19: with two controllers over the same storage, each write replaces the
\* stored value with the writer's own lists, without merging: when the first
\* tab has just added a Todo and the second tab then adds a Todo or toggles
\* one of its own, the stored value afterwards is exactly the second tab's
\* active list followed by its completed list, and the first tab's new Todo,
\* stored until then, is no longer in it.
C19_LastWriteWins ==
    [][lastOp'.name \in {"addTodoB", "toggleCompletedB"} =>
          /\ hasItem(localStorage', StorageKey)
          /\ JSONparse(localStorage'[StorageKey]) = tabB'.todoList \o tabB'.completedList
          /\ lastOp.name = "addTodo" =>
                /\ StoredHolds(localStorage, todoList[Len(todoList)])
                /\ ~StoredHolds(localStorage', todoList[Len(todoList)])
                /\ todoList' = todoList
    ]_vars

\* The second tab has just written its two lists, two Todos or more, over
\* what the first tab stored: the first tab still holds the Todo it added
\* last, the storage does not.
C19_Witness ==
    /\ tabB.open
    /\ lastOp.name \in {"addTodoB", "toggleCompletedB"}
    /\ Len(todoList) >= 1
    /\ ~StoredHolds(localStorage, todoList[Len(todoList)])
    /\ JSONparse(localStorage[StorageKey]) = tabB.todoList \o tabB.completedList
    /\ Len(tabB.todoList) + Len(tabB.completedList) >= 2

=============================================================================
